---- MODULE Spec2Model ----
(***************************************************************************)
(* Customer API (Flask + MySQL): request handling of src/apis.py, the      *)
(* connection helper of src/database.py and the error handlers of         *)
(* src/__init__.py, as a state machine.                                    *)
(*                                                                         *)
(* Text is a sequence of one-character strings, so that trimming, case     *)
(* folding, integer parsing and LIKE matching are computed, not assumed.   *)
(* A nullable value is <<>> (NULL / None) or <<v>>.                        *)
(*                                                                         *)
(* A handler is one action: it reads the request, talks to the store and   *)
(* returns; `events` keeps the store steps of the request in order.  The   *)
(* columns gender, address, postal_code, search_term and the shipped /     *)
(* delivered / returned timestamps are carried through unchanged by the    *)
(* handlers and are left out of rows and bodies.                           *)
(*                                                                         *)
(* `seen` belongs to a client that walks the pages of the customer list    *)
(* (SpecPages); the service never reads it.                                *)
(***************************************************************************)
EXTENDS Integers, Sequences, FiniteSets, TLC

VARIABLES users, orders, pc, req, resp, events, seen

vars == <<users, orders, pc, req, resp, events, seen>>

----------------------------------------------------------------------------
(* Bounds of the model and constants of the program *)

MaxUserId == 3

MaxOrderId == 4

DEFAULT_PAGE_SIZE == 10

MAX_PAGE_SIZE == 100

----------------------------------------------------------------------------
(* Nullable values *)

NULL == <<>>

Some(v) == <<v>>

IsNull(x) == x = <<>>

Val(x) == x[1]

Min2(a, b) == IF a <= b THEN a ELSE b

----------------------------------------------------------------------------
(* Text *)

Upper == <<"A","B","C","D","E","F","G","H","I","J","K","L","M",
           "N","O","P","Q","R","S","T","U","V","W","X","Y","Z">>

LowerLetters == <<"a","b","c","d","e","f","g","h","i","j","k","l","m",
                  "n","o","p","q","r","s","t","u","v","w","x","y","z">>

DigitChars == <<"0","1","2","3","4","5","6","7","8","9">>

IsDigit(c) == \E i \in 1..10 : DigitChars[i] = c

DigitVal(c) == (CHOOSE i \in 1..10 : DigitChars[i] = c) - 1

IsSpace(c) == c = " "

\* str.lower() on one character
LowerChar(c) ==
  IF \E i \in 1..26 : Upper[i] = c
  THEN LowerLetters[CHOOSE i \in 1..26 : Upper[i] = c]
  ELSE c

\* str.lower()
Lower(s) == [i \in 1..Len(s) |-> LowerChar(s[i])]

RECURSIVE LStrip(_)
LStrip(s) == IF s # <<>> /\ IsSpace(Head(s)) THEN LStrip(Tail(s)) ELSE s

RECURSIVE RStrip(_)
RStrip(s) ==
  IF s # <<>> /\ IsSpace(s[Len(s)]) THEN RStrip(SubSeq(s, 1, Len(s) - 1)) ELSE s

\* str.strip()
Strip(s) == RStrip(LStrip(s))

RECURSIVE DigitsValue(_)
DigitsValue(s) ==
  IF s = <<>> THEN 0
  ELSE 10 * DigitsValue(SubSeq(s, 1, Len(s) - 1)) + DigitVal(s[Len(s)])

AllDigits(s) == s # <<>> /\ \A i \in 1..Len(s) : IsDigit(s[i])

\* int(text): surrounding blanks and one sign are accepted; anything else
\* raises ValueError, rendered here as NULL.
PyInt(s) ==
  LET t == Strip(s) IN
  IF t # <<>> /\ Head(t) \in {"-", "+"}
  THEN IF AllDigits(Tail(t))
       THEN Some(IF Head(t) = "-" THEN 0 - DigitsValue(Tail(t)) ELSE DigitsValue(Tail(t)))
       ELSE NULL
  ELSE IF AllDigits(t) THEN Some(DigitsValue(t)) ELSE NULL

\* str(None) as interpolated by an f-string
NoneText == <<"N","o","n","e">>

\* f"{x}" of a nullable text column
FmtText(x) == IF IsNull(x) THEN NoneText ELSE Val(x)

----------------------------------------------------------------------------
(* Request parsing *)

\* request.args.get(key, default, type=int): the default when the key is
\* absent, and also when the conversion raises ValueError.
ArgsGetInt(raw, default) ==
  IF IsNull(raw) THEN default
  ELSE IF IsNull(PyInt(Val(raw))) THEN default ELSE Val(PyInt(Val(raw)))

\* request.args.get(key, '', type=str)
ArgsGetStr(raw) == IF IsNull(raw) THEN <<>> ELSE Val(raw)

\* The <int:...> converter of a route: the segment matches when it is made of
\* digits only (no sign); NULL is "the URL matches no route".
IntConverter(seg) == IF AllDigits(seg) THEN Some(DigitsValue(seg)) ELSE NULL

----------------------------------------------------------------------------
(* The store: tables users and orders *)

T_An == <<"A","n">>

T_Lee == <<"L","e","e">>

T_Bo == <<"B","o">>

T_Mail(i) == <<"u", DigitChars[(i % 10) + 1], "@","x">>

Statuses == << <<"d","e","l","i","v","e","r","e","d">>,
               <<"S","h","i","p","p","e","d">>,
               <<"p","e","n","d","i","n","g">>,
               <<"w","e","i","r","d">>,
               <<"r","e","t","u","r","n","e","d">> >>

\* The row the loader may have stored for user i: full rows, a row without
\* names, and a row with a first name only and coordinates 0.
UserRow(i) ==
  LET k == i % 3 IN
  [ id         |-> i,
    first_name |-> IF k = 1 THEN Some(T_An) ELSE IF k = 2 THEN NULL ELSE Some(T_Bo),
    last_name  |-> IF k = 1 THEN Some(T_Lee) ELSE NULL,
    email      |-> IF k = 2 THEN NULL ELSE Some(T_Mail(i)),
    age        |-> IF k = 2 THEN NULL ELSE Some(20 + i),
    city       |-> IF k = 1 THEN Some(T_Bo) ELSE NULL,
    state      |-> IF k = 1 THEN Some(T_An) ELSE NULL,
    country    |-> IF k = 1 THEN Some(T_Lee) ELSE NULL,
    latitude   |-> IF k = 1 THEN Some(7) ELSE IF k = 2 THEN NULL ELSE Some(0),
    longitude  |-> IF k = 1 THEN Some(0 - 3) ELSE IF k = 2 THEN NULL ELSE Some(0) ]

\* The row the loader may have stored for order j.  Orders are spread over
\* users 1 and 2; created_at values are pairwise distinct and not in id order.
OrderRow(j) ==
  [ order_id    |-> j,
    user_id     |-> IF j % 3 = 0 THEN 2 ELSE 1,
    status      |-> Statuses[((j - 1) % 5) + 1],
    num_of_item |-> j,
    created_at  |-> 10 + ((j * 3) % 7) ]

UserIds == 1..MaxUserId

OrderIds == 1..MaxOrderId

\* Possible contents of the two tables.  orders.user_id is not a foreign key:
\* an order whose user is not stored is a dangling reference.
UserTables == { {UserRow(i) : i \in S} : S \in SUBSET UserIds }

\* One customer's orders in statuses delivered, delivered, shipped and a status
\* outside the four the summary names.
SummaryExample ==
  { [ order_id |-> j, user_id |-> 1,
      status |-> Lower(Statuses[<<1, 1, 2, 4>>[j]]),
      num_of_item |-> j, created_at |-> 20 + j ] : j \in 1..4 }

OrderTables ==
  { {OrderRow(j) : j \in 1..n} : n \in 0..MaxOrderId } \cup {SummaryExample}

----------------------------------------------------------------------------
(* SQL: the statements the handlers build, and what the store answers *)

\* A statement: its text is named by (kind, table, where, tail); params are
\* the bound parameters in placeholder order.
Statement(kind, table, where, tail, params) ==
  [kind |-> kind, table |-> table, where |-> where, tail |-> tail, params |-> params]

NoStmt == Statement("", "", "", "", <<>>)

RECURSIVE LikeMatch(_, _)
\* text LIKE pattern under the connection's case-insensitive collation:
\* % matches any run of characters, _ one character.
LikeMatch(s, p) ==
  IF p = <<>> THEN s = <<>>
  ELSE IF Head(p) = "%"
       THEN LikeMatch(s, Tail(p)) \/ (s # <<>> /\ LikeMatch(Tail(s), p))
       ELSE /\ s # <<>>
            /\ (Head(p) = "_" \/ LowerChar(Head(s)) = LowerChar(Head(p)))
            /\ LikeMatch(Tail(s), Tail(p))

\* column LIKE %s: NULL never matches
Like(col, p) == ~IsNull(col) /\ LikeMatch(Val(col), p)

\* a = b on text under the case-insensitive collation
CiEq(a, b) == Lower(a) = Lower(b)

\* Whether a row satisfies a statement's WHERE clause
Where(row, where, params) ==
  CASE where = "" -> TRUE
    [] where = "search" ->
         Like(row.first_name, params[1]) \/ Like(row.last_name, params[2])
           \/ Like(row.email, params[3])
    [] where = "id" -> row.id = params[1]
    [] where = "user_id" -> row.user_id = params[1]
    [] where = "user_id_status" ->
         row.user_id = params[1] /\ CiEq(Lower(row.status), params[2])
    [] where = "order_id" -> row.order_id = params[1]

Table(name) == IF name = "users" THEN users ELSE orders

Selected(stmt) == {r \in Table(stmt.table) : Where(r, stmt.where, stmt.params)}

Key(row, tail) == IF tail = "order_by_id" THEN row.id ELSE 0 - row.created_at

RECURSIVE Sorted(_, _)
\* ORDER BY id (ascending) / ORDER BY created_at DESC
Sorted(S, tail) ==
  IF S = {} THEN <<>>
  ELSE LET first == CHOOSE r \in S : \A q \in S : Key(r, tail) <= Key(q, tail)
       IN <<first>> \o Sorted(S \ {first}, tail)

\* LIMIT n OFFSET k of a row sequence
LimitOffset(rows, n, k) ==
  IF k >= Len(rows) THEN <<>> ELSE SubSeq(rows, k + 1, Min2(k + n, Len(rows)))

\* The u.* columns the order query selects through LEFT JOIN users u ON
\* o.user_id = u.id: the user's columns, or NULLs when no user has that id.
JoinedUser(order) ==
  IF \E u \in users : u.id = order.user_id
  THEN LET u == CHOOSE u \in users : u.id = order.user_id
       IN [ first_name |-> u.first_name, last_name |-> u.last_name,
            email |-> u.email, age |-> u.age, city |-> u.city,
            state |-> u.state, country |-> u.country ]
  ELSE [ first_name |-> NULL, last_name |-> NULL, email |-> NULL, age |-> NULL,
         city |-> NULL, state |-> NULL, country |-> NULL ]

\* cursor.fetchone() after a SELECT COUNT(*)
FetchCount(stmt) == Cardinality(Selected(stmt))

\* cursor.fetchall() after a paged SELECT: the last two parameters are the
\* LIMIT and the OFFSET.
FetchPage(stmt) ==
  LET n == Len(stmt.params) IN
  LimitOffset(Sorted(Selected(stmt), stmt.tail), stmt.params[n - 1], stmt.params[n])

\* cursor.fetchone() after a SELECT by key: NULL when no row matches
FetchOne(stmt) ==
  IF Selected(stmt) = {} THEN NULL ELSE Some(CHOOSE r \in Selected(stmt) : TRUE)

----------------------------------------------------------------------------
(* What a request observes of the store, and the trace it leaves *)

\* One step of a request against the store driver
Ev(op, ok, stmt) == [op |-> op, ok |-> ok, stmt |-> stmt]

EvConnect(ok) == Ev("connect", ok, NoStmt)

EvCursor(ok) == Ev("cursor", ok, NoStmt)

EvExecute(stmt, ok) == Ev("execute", ok, stmt)

EvIsConnected(ok) == Ev("is_connected", ok, NoStmt)

EvCursorClose == Ev("cursor_close", TRUE, NoStmt)

EvClose(ok) == Ev("close", ok, NoStmt)

\* The text of the exception the driver raises
DriverErrorText == "2003: Can't connect to MySQL server on 'localhost'"

\* How the store behaves during one request: whether connect() succeeds,
\* whether cursor() succeeds, which execute() raises (0: none), whether the
\* connection is still connected when the finally block asks, and whether
\* the application propagates unhandled exceptions (DEBUG) instead of calling
\* its 500 handler.
Env(nq) ==
  { e \in [connect : BOOLEAN, cursor : BOOLEAN, failAt : 0..nq,
           connected : BOOLEAN, propagate : BOOLEAN] :
      /\ (~e.connect => e.cursor /\ e.failAt = 0 /\ e.connected)
      /\ (~e.cursor => e.failAt = 0)
      /\ (e.propagate => e.connect /\ ~e.cursor /\ e.connected) }

OkEnv == [connect |-> TRUE, cursor |-> TRUE, failAt |-> 0, connected |-> TRUE,
          propagate |-> FALSE]

\* What a handler hands back: the response and the trace of store steps
Out(response, trace) == [resp |-> response, events |-> trace]

Response(code, body) == [status |-> code, body |-> body]

\* jsonify({'error': ..., 'message': ..., 'status': ...}), code
JsonError(error, message, code) ==
  Response(code, [kind |-> "error", error |-> error, message |-> message,
                  status |-> code])

\* get_db_connection(): the driver's exception is logged and None returned
get_db_connection(env) == env.connect

\* The application's handlers for errors raised outside the view functions
not_found == JsonError("Not Found", "The requested resource was not found", 404)

internal_error ==
  JsonError("Internal Server Error", "An unexpected error occurred", 500)

\* An exception leaving a view function: re-raised to the server, which
\* answers with its own 500 page, or turned over to the 500 handler.
Unhandled(env, exc) ==
  IF env.propagate
  THEN Response(500, [kind |-> "server_error_page", exception |-> exc])
  ELSE internal_error

\* finally: if 'connection' in locals() and connection and
\* connection.is_connected(): cursor.close(); connection.close()
\* With no cursor bound, cursor.close() raises UnboundLocalError, which
\* replaces the response being returned and skips connection.close().
Finally(out, env, haveCursor) ==
  IF ~env.connected
  THEN Out(out.resp, out.events \o <<EvIsConnected(FALSE)>>)
  ELSE IF ~haveCursor
       THEN Out(Unhandled(env, "UnboundLocalError"),
                out.events \o <<EvIsConnected(TRUE)>>)
       ELSE Out(out.resp,
                out.events \o <<EvIsConnected(TRUE), EvCursorClose, EvClose(TRUE)>>)

\* The "Unable to connect to database" return of every data handler; the
\* finally block finds connection falsy and does nothing.
DatabaseError ==
  JsonError("Database Error", "Unable to connect to database", 500)

\* Mutant: the 500 body returned without its status code
Caught_NoCode(message) ==
  Response(200, [kind |-> "error", error |-> "Internal Server Error",
                 message |-> message, status |-> 500])

\* except Exception: log, and answer the handler's fixed 500 message
Caught(message) == JsonError("Internal Server Error", message, 500)

----------------------------------------------------------------------------
(* Pagination arithmetic *)

\* Mutant: the offset of the next page
Offset_PageTimesLimit(page, limit) == page * limit

\* offset = (page - 1) * limit
Offset(page, limit) == (page - 1) * limit

\* Mutant: floor division without the rounding term
TotalPages_Floor(total_count, limit) == total_count \div limit

\* total_pages = (total_count + limit - 1) // limit
TotalPages(total_count, limit) == (total_count + limit - 1) \div limit

\* The 'pagination' object of a list response
Pagination(page, limit, total_count) ==
  [ page        |-> page,
    limit       |-> limit,
    total_count |-> total_count,
    total_pages |-> TotalPages(total_count, limit),
    has_next    |-> page < TotalPages(total_count, limit),
    has_prev    |-> page > 1 ]

InvalidPage ==
  JsonError("Invalid page number", "Page number must be 1 or greater", 400)

InvalidLimit == JsonError("Invalid limit", "Limit must be between 1 and 100", 400)

----------------------------------------------------------------------------
(* GET /api/customers *)

\* The WHERE clause of list_customers and its parameters
SearchWhere(search) == IF search # <<>> THEN "search" ELSE ""

SearchParams(search) ==
  IF search # <<>>
  THEN LET p == <<"%">> \o search \o <<"%">> IN <<p, p, p>>
  ELSE <<>>

\* Mutant: the count statement without the search condition
CustomersCountQuery_NoWhere(search) == Statement("count", "users", "", "", <<>>)

CustomersCountQuery(search) ==
  Statement("count", "users", SearchWhere(search), "", SearchParams(search))

\* Mutant: LIMIT and OFFSET bound in the wrong order
CustomersPageQuery_Swapped(search, limit, offset) ==
  Statement("select", "users", SearchWhere(search), "order_by_id",
            SearchParams(search) \o <<offset, limit>>)

CustomersPageQuery(search, limit, offset) ==
  Statement("select", "users", SearchWhere(search), "order_by_id",
            SearchParams(search) \o <<limit, offset>>)

\* The columns of one row of the customer list
CustomerListItem(u) ==
  [ id |-> u.id, first_name |-> u.first_name, last_name |-> u.last_name,
    email |-> u.email, age |-> u.age, state |-> u.state, city |-> u.city,
    country |-> u.country ]

CustomersBody(rows, page, limit, total_count, search) ==
  [ kind       |-> "customers",
    customers  |-> [i \in 1..Len(rows) |-> CustomerListItem(rows[i])],
    pagination |-> Pagination(page, limit, total_count),
    status     |-> 200,
    search     |-> IF search # <<>> THEN Some(search) ELSE NULL ]

\* The try block of list_customers once the parameters are valid and the
\* connection is open.
ListCustomersQueries(page, limit, search, env) ==
  LET msg    == "An error occurred while fetching customers"
      countQ == CustomersCountQuery(search)
      pageQ  == CustomersPageQuery(search, limit, Offset(page, limit))
      pre    == <<EvConnect(TRUE), EvCursor(TRUE)>>
  IN IF env.failAt = 1
     THEN Out(Caught(msg), pre \o <<EvExecute(countQ, FALSE)>>)
     ELSE IF env.failAt = 2
     THEN Out(Caught(msg),
              pre \o <<EvExecute(countQ, TRUE), EvExecute(pageQ, FALSE)>>)
     ELSE Out(Response(200, CustomersBody(FetchPage(pageQ), page, limit,
                                          FetchCount(countQ), search)),
              pre \o <<EvExecute(countQ, TRUE), EvExecute(pageQ, TRUE)>>)

\* Mutant: the connection and cursor are obtained before the parameters are
\* validated
list_customers_ConnectFirst(rawPage, rawLimit, rawSearch, env) ==
  LET page   == ArgsGetInt(rawPage, 1)
      limit  == ArgsGetInt(rawLimit, DEFAULT_PAGE_SIZE)
      search == Strip(ArgsGetStr(rawSearch))
      pre    == <<EvConnect(TRUE), EvCursor(TRUE)>>
  IN IF ~get_db_connection(env)
     THEN Out(DatabaseError, <<EvConnect(FALSE)>>)
     ELSE IF ~env.cursor
     THEN Finally(Out(Caught("An error occurred while fetching customers"),
                      <<EvConnect(TRUE), EvCursor(FALSE)>>), env, FALSE)
     ELSE IF page < 1 THEN Finally(Out(InvalidPage, pre), env, TRUE)
     ELSE IF limit < 1 \/ limit > MAX_PAGE_SIZE
     THEN Finally(Out(InvalidLimit, pre), env, TRUE)
     ELSE Finally(ListCustomersQueries(page, limit, search, env), env, TRUE)

list_customers(rawPage, rawLimit, rawSearch, env) ==
  LET page   == ArgsGetInt(rawPage, 1)
      limit  == ArgsGetInt(rawLimit, DEFAULT_PAGE_SIZE)
      search == Strip(ArgsGetStr(rawSearch))
  IN IF page < 1 THEN Out(InvalidPage, <<>>)
     ELSE IF limit < 1 \/ limit > MAX_PAGE_SIZE THEN Out(InvalidLimit, <<>>)
     ELSE IF ~get_db_connection(env)
     THEN Out(DatabaseError, <<EvConnect(FALSE)>>)
     ELSE IF ~env.cursor
     THEN Finally(Out(Caught("An error occurred while fetching customers"),
                      <<EvConnect(TRUE), EvCursor(FALSE)>>), env, FALSE)
     ELSE Finally(ListCustomersQueries(page, limit, search, env), env, TRUE)

----------------------------------------------------------------------------
(* GET /api/customers/<int:customer_id> *)

InvalidCustomerId ==
  JsonError("Invalid Customer ID", "Customer ID must be a positive integer", 400)

CustomerNotFound ==
  JsonError("Customer Not Found", "Customer with ID {customer_id} does not exist", 404)

CustomerByIdQuery(customer_id) ==
  Statement("select", "users", "id", "", <<customer_id>>)

OrderStatsQuery(customer_id) ==
  Statement("stats", "orders", "user_id", "", <<customer_id>>)

T_delivered == <<"d","e","l","i","v","e","r","e","d">>

T_returned == <<"r","e","t","u","r","n","e","d">>

T_shipped == <<"s","h","i","p","p","e","d">>

T_pending == <<"p","e","n","d","i","n","g">>

\* Mutant: a CASE that yields a value for every row
CountStatus_All(rows, literal) == Cardinality(rows)

\* COUNT(CASE WHEN status = <literal> THEN 1 END)
CountStatus(rows, literal) == Cardinality({o \in rows : CiEq(o.status, literal)})

RECURSIVE SumItems(_)
\* SUM(num_of_item): NULL over no rows
SumItems(rows) ==
  IF rows = {} THEN NULL
  ELSE LET o == CHOOSE o \in rows : TRUE
           rest == SumItems(rows \ {o})
       IN Some(o.num_of_item + (IF IsNull(rest) THEN 0 ELSE Val(rest)))

\* MIN(created_at) / MAX(created_at): NULL over no rows
MinCreated(rows) ==
  IF rows = {} THEN NULL
  ELSE Some(CHOOSE t \in {o.created_at : o \in rows} :
              \A o \in rows : t <= o.created_at)

MaxCreated(rows) ==
  IF rows = {} THEN NULL
  ELSE Some(CHOOSE t \in {o.created_at : o \in rows} :
              \A o \in rows : t >= o.created_at)

\* cursor.fetchone() after the aggregate query
FetchStats(stmt) ==
  LET rows == Selected(stmt) IN
  [ total_orders     |-> Cardinality(rows),
    delivered_orders |-> CountStatus(rows, T_delivered),
    returned_orders  |-> CountStatus(rows, T_returned),
    shipped_orders   |-> CountStatus(rows, T_shipped),
    pending_orders   |-> CountStatus(rows, T_pending),
    total_items      |-> SumItems(rows),
    first_order_date |-> MinCreated(rows),
    last_order_date  |-> MaxCreated(rows) ]

\* f"{first_name} {last_name}"
JoinName(first, last) == FmtText(first) \o <<" ">> \o FmtText(last)

\* float(x) if x else None: a NULL and a zero are both falsy
Coordinate(x) == IF ~IsNull(x) /\ Val(x) # 0 THEN x ELSE NULL

CustomerDetailBody(c, stats) ==
  [ kind |-> "customer",
    customer |->
      [ id |-> c.id, first_name |-> c.first_name, last_name |-> c.last_name,
        full_name |-> Some(JoinName(c.first_name, c.last_name)),
        email |-> c.email, age |-> c.age,
        location |-> [ city |-> c.city, state |-> c.state, country |-> c.country,
                       coordinates |-> [ latitude  |-> Coordinate(c.latitude),
                                         longitude |-> Coordinate(c.longitude) ] ] ],
    order_summary |->
      [ total_orders |-> stats.total_orders,
        orders_by_status |->
          [ delivered |-> stats.delivered_orders, returned |-> stats.returned_orders,
            shipped |-> stats.shipped_orders, pending |-> stats.pending_orders ],
        total_items_purchased |->
          IF IsNull(stats.total_items) THEN 0 ELSE Val(stats.total_items),
        first_order_date |-> stats.first_order_date,
        last_order_date  |-> stats.last_order_date ],
    status |-> 200 ]

\* The try block of get_customer_details once the connection is open
CustomerDetailQueries(customer_id, env) ==
  LET msg    == "An error occurred while fetching customer details"
      custQ  == CustomerByIdQuery(customer_id)
      statsQ == OrderStatsQuery(customer_id)
      pre    == <<EvConnect(TRUE), EvCursor(TRUE)>>
  IN IF env.failAt = 1
     THEN Out(Caught(msg), pre \o <<EvExecute(custQ, FALSE)>>)
     ELSE IF IsNull(FetchOne(custQ))
     THEN Out(CustomerNotFound, pre \o <<EvExecute(custQ, TRUE)>>)
     ELSE IF env.failAt = 2
     THEN Out(Caught(msg),
              pre \o <<EvExecute(custQ, TRUE), EvExecute(statsQ, FALSE)>>)
     ELSE Out(Response(200, CustomerDetailBody(Val(FetchOne(custQ)),
                                               FetchStats(statsQ))),
              pre \o <<EvExecute(custQ, TRUE), EvExecute(statsQ, TRUE)>>)

get_customer_details(customer_id, env) ==
  IF customer_id <= 0 THEN Out(InvalidCustomerId, <<>>)
  ELSE IF ~get_db_connection(env) THEN Out(DatabaseError, <<EvConnect(FALSE)>>)
  ELSE IF ~env.cursor
  THEN Finally(Out(Caught("An error occurred while fetching customer details"),
                   <<EvConnect(TRUE), EvCursor(FALSE)>>), env, FALSE)
  ELSE Finally(CustomerDetailQueries(customer_id, env), env, TRUE)

----------------------------------------------------------------------------
(* GET /api/customers/<int:customer_id>/orders *)

CustomerExistsQuery(customer_id) ==
  Statement("select", "users", "id", "", <<customer_id>>)

\* Mutant: the status condition is never added to the statements
OrdersWhere_NoFilter(status_filter) == "user_id"

OrdersWhere(status_filter) ==
  IF status_filter # <<>> THEN "user_id_status" ELSE "user_id"

OrdersParams(customer_id, status_filter) ==
  IF status_filter # <<>> THEN <<customer_id, status_filter>> ELSE <<customer_id>>

OrdersCountQuery(customer_id, status_filter) ==
  Statement("count", "orders", OrdersWhere(status_filter), "",
            OrdersParams(customer_id, status_filter))

OrdersPageQuery(customer_id, status_filter, limit, offset) ==
  Statement("select", "orders", OrdersWhere(status_filter), "order_by_created_at_desc",
            OrdersParams(customer_id, status_filter) \o <<limit, offset>>)

\* One entry of formatted_orders
OrderListItem(o) ==
  [ order_id |-> o.order_id, user_id |-> o.user_id, status |-> o.status,
    num_of_items |-> o.num_of_item, created_at |-> Some(o.created_at) ]

CustomerOrdersBody(c, rows, page, limit, total_count, status_filter) ==
  [ kind       |-> "customer_orders",
    customer   |-> [ id |-> c.id, name |-> JoinName(c.first_name, c.last_name) ],
    orders     |-> [i \in 1..Len(rows) |-> OrderListItem(rows[i])],
    pagination |-> Pagination(page, limit, total_count),
    status     |-> 200,
    filter     |-> IF status_filter # <<>> THEN Some(status_filter) ELSE NULL ]

\* Mutant: the count is taken before the customer is looked up
CustomerOrdersQueries_CountFirst(customer_id, page, limit, status_filter, env) ==
  LET msg    == "An error occurred while fetching customer orders"
      custQ  == CustomerExistsQuery(customer_id)
      countQ == OrdersCountQuery(customer_id, status_filter)
      pageQ  == OrdersPageQuery(customer_id, status_filter, limit, Offset(page, limit))
      pre    == <<EvConnect(TRUE), EvCursor(TRUE)>>
  IN IF env.failAt = 1
     THEN Out(Caught(msg), pre \o <<EvExecute(countQ, FALSE)>>)
     ELSE IF env.failAt = 2
     THEN Out(Caught(msg),
              pre \o <<EvExecute(countQ, TRUE), EvExecute(custQ, FALSE)>>)
     ELSE IF IsNull(FetchOne(custQ))
     THEN Out(CustomerNotFound,
              pre \o <<EvExecute(countQ, TRUE), EvExecute(custQ, TRUE)>>)
     ELSE IF env.failAt = 3
     THEN Out(Caught(msg),
              pre \o <<EvExecute(countQ, TRUE), EvExecute(custQ, TRUE),
                       EvExecute(pageQ, FALSE)>>)
     ELSE Out(Response(200, CustomerOrdersBody(Val(FetchOne(custQ)), FetchPage(pageQ),
                                               page, limit, FetchCount(countQ),
                                               status_filter)),
              pre \o <<EvExecute(countQ, TRUE), EvExecute(custQ, TRUE),
                       EvExecute(pageQ, TRUE)>>)

\* The try block of get_customer_orders once the parameters are valid and the
\* connection is open.
CustomerOrdersQueries(customer_id, page, limit, status_filter, env) ==
  LET msg    == "An error occurred while fetching customer orders"
      custQ  == CustomerExistsQuery(customer_id)
      countQ == OrdersCountQuery(customer_id, status_filter)
      pageQ  == OrdersPageQuery(customer_id, status_filter, limit, Offset(page, limit))
      pre    == <<EvConnect(TRUE), EvCursor(TRUE)>>
  IN IF env.failAt = 1
     THEN Out(Caught(msg), pre \o <<EvExecute(custQ, FALSE)>>)
     ELSE IF IsNull(FetchOne(custQ))
     THEN Out(CustomerNotFound, pre \o <<EvExecute(custQ, TRUE)>>)
     ELSE IF env.failAt = 2
     THEN Out(Caught(msg),
              pre \o <<EvExecute(custQ, TRUE), EvExecute(countQ, FALSE)>>)
     ELSE IF env.failAt = 3
     THEN Out(Caught(msg),
              pre \o <<EvExecute(custQ, TRUE), EvExecute(countQ, TRUE),
                       EvExecute(pageQ, FALSE)>>)
     ELSE Out(Response(200, CustomerOrdersBody(Val(FetchOne(custQ)), FetchPage(pageQ),
                                               page, limit, FetchCount(countQ),
                                               status_filter)),
              pre \o <<EvExecute(custQ, TRUE), EvExecute(countQ, TRUE),
                       EvExecute(pageQ, TRUE)>>)

get_customer_orders(customer_id, rawPage, rawLimit, rawStatus, env) ==
  LET page          == ArgsGetInt(rawPage, 1)
      limit         == ArgsGetInt(rawLimit, DEFAULT_PAGE_SIZE)
      status_filter == Lower(Strip(ArgsGetStr(rawStatus)))
  IN IF customer_id <= 0 THEN Out(InvalidCustomerId, <<>>)
     ELSE IF page < 1 THEN Out(InvalidPage, <<>>)
     ELSE IF limit < 1 \/ limit > MAX_PAGE_SIZE THEN Out(InvalidLimit, <<>>)
     ELSE IF ~get_db_connection(env) THEN Out(DatabaseError, <<EvConnect(FALSE)>>)
     ELSE IF ~env.cursor
     THEN Finally(Out(Caught("An error occurred while fetching customer orders"),
                      <<EvConnect(TRUE), EvCursor(FALSE)>>), env, FALSE)
     ELSE Finally(CustomerOrdersQueries(customer_id, page, limit, status_filter, env),
                  env, TRUE)

----------------------------------------------------------------------------
(* GET /api/orders/<int:order_id> *)

InvalidOrderId ==
  JsonError("Invalid Order ID", "Order ID must be a positive integer", 400)

OrderNotFound ==
  JsonError("Order Not Found", "Order with ID {order_id} does not exist", 404)

OrderJoinQuery(order_id) ==
  Statement("select_join", "orders", "order_id", "", <<order_id>>)

\* Python truthiness of a nullable text: None and '' are falsy
Truthy(x) == ~IsNull(x) /\ Val(x) # <<>>

\* Mutant: the order detail body without its status field
OrderDetailBody_NoStatus(o, u) ==
  [ kind |-> "order",
    order |-> [ order_id |-> o.order_id, user_id |-> o.user_id, status |-> o.status,
                num_of_items |-> o.num_of_item, created_at |-> Some(o.created_at) ],
    customer |->
      [ id |-> Some(o.user_id), first_name |-> u.first_name,
        last_name |-> u.last_name,
        full_name |-> IF Truthy(u.first_name) /\ Truthy(u.last_name)
                      THEN Some(JoinName(u.first_name, u.last_name)) ELSE NULL,
        email |-> u.email, age |-> u.age,
        location |-> [ city |-> u.city, state |-> u.state, country |-> u.country ] ] ]

OrderDetailBody(o, u) ==
  [ kind |-> "order",
    order |-> [ order_id |-> o.order_id, user_id |-> o.user_id, status |-> o.status,
                num_of_items |-> o.num_of_item, created_at |-> Some(o.created_at) ],
    customer |->
      [ id |-> Some(o.user_id), first_name |-> u.first_name,
        last_name |-> u.last_name,
        full_name |-> IF Truthy(u.first_name) /\ Truthy(u.last_name)
                      THEN Some(JoinName(u.first_name, u.last_name)) ELSE NULL,
        email |-> u.email, age |-> u.age,
        location |-> [ city |-> u.city, state |-> u.state, country |-> u.country ] ],
    status |-> 200 ]

\* Mutant: JOIN instead of LEFT JOIN, so an order without a user has no row
OrderDetailQueries_InnerJoin(order_id, env) ==
  LET msg == "An error occurred while fetching order details"
      q   == OrderJoinQuery(order_id)
      pre == <<EvConnect(TRUE), EvCursor(TRUE)>>
  IN IF env.failAt = 1
     THEN Out(Caught(msg), pre \o <<EvExecute(q, FALSE)>>)
     ELSE IF IsNull(FetchOne(q))
             \/ \A u \in users : u.id # Val(FetchOne(q)).user_id
     THEN Out(OrderNotFound, pre \o <<EvExecute(q, TRUE)>>)
     ELSE Out(Response(200, OrderDetailBody(Val(FetchOne(q)),
                                            JoinedUser(Val(FetchOne(q))))),
              pre \o <<EvExecute(q, TRUE)>>)

\* The try block of get_order_details once the connection is open
OrderDetailQueries(order_id, env) ==
  LET msg == "An error occurred while fetching order details"
      q   == OrderJoinQuery(order_id)
      pre == <<EvConnect(TRUE), EvCursor(TRUE)>>
  IN IF env.failAt = 1
     THEN Out(Caught(msg), pre \o <<EvExecute(q, FALSE)>>)
     ELSE IF IsNull(FetchOne(q))
     THEN Out(OrderNotFound, pre \o <<EvExecute(q, TRUE)>>)
     ELSE Out(Response(200, OrderDetailBody(Val(FetchOne(q)),
                                            JoinedUser(Val(FetchOne(q))))),
              pre \o <<EvExecute(q, TRUE)>>)

get_order_details(order_id, env) ==
  IF order_id <= 0 THEN Out(InvalidOrderId, <<>>)
  ELSE IF ~get_db_connection(env) THEN Out(DatabaseError, <<EvConnect(FALSE)>>)
  ELSE IF ~env.cursor
  THEN Finally(Out(Caught("An error occurred while fetching order details"),
                   <<EvConnect(TRUE), EvCursor(FALSE)>>), env, FALSE)
  ELSE Finally(OrderDetailQueries(order_id, env), env, TRUE)

----------------------------------------------------------------------------
(* GET /api/health and GET / *)

\* Mutant: an unreachable store fails the health request
health_check_Strict(connectOk, closeOk) ==
  IF connectOk /\ closeOk
  THEN Out(Response(200, [kind |-> "health", status |-> "healthy",
                          database |-> "connected", version |-> "1.0.0"]),
           <<EvConnect(TRUE), EvClose(TRUE)>>)
  ELSE Out(Response(500, [kind |-> "health_error", status |-> "unhealthy",
                          error |-> DriverErrorText]),
           IF connectOk THEN <<EvConnect(TRUE), EvClose(FALSE)>>
           ELSE <<EvConnect(FALSE)>>)

\* health_check: get_db_connection() never raises; connection.close() may.
\* The except branch puts str(e) in the body.
health_check(connectOk, closeOk) ==
  IF ~connectOk
  THEN Out(Response(200, [kind |-> "health", status |-> "healthy",
                          database |-> "disconnected", version |-> "1.0.0"]),
           <<EvConnect(FALSE)>>)
  ELSE IF closeOk
  THEN Out(Response(200, [kind |-> "health", status |-> "healthy",
                          database |-> "connected", version |-> "1.0.0"]),
           <<EvConnect(TRUE), EvClose(TRUE)>>)
  ELSE Out(Response(500, [kind |-> "health_error", status |-> "unhealthy",
                          error |-> DriverErrorText]),
           <<EvConnect(TRUE), EvClose(FALSE)>>)

root ==
  Out(Response(200, [kind |-> "root", message |-> "Customer API",
                     version |-> "1.0.0"]), <<>>)

----------------------------------------------------------------------------
(* Requests a client may send *)

RECURSIVE IntText(_)
\* The decimal text of a natural number
IntText(n) ==
  IF n < 10 THEN <<DigitChars[n + 1]>>
  ELSE IntText(n \div 10) \o <<DigitChars[(n % 10) + 1]>>

\* A query parameter is absent (NULL) or present with some text
PageRaws == {NULL, Some(<<"x">>)} \cup {Some(IntText(i)) : i \in 0..MaxUserId}

LimitRaws ==
  {NULL} \cup {Some(IntText(i)) : i \in {0, 1, 2, MAX_PAGE_SIZE, MAX_PAGE_SIZE + 1}}

SearchRaws == {NULL, Some(<<" ">>), Some(<<" ","a","n">>)}

StatusRaws == {NULL, Some(<<" ","S","h","i","p","p","e","d"," ">>),
               Some(<<"b","o","g","u","s">>)}

\* The id segment of a path
CustomerSegs == {<<"x">>, <<"-","1">>} \cup {IntText(i) : i \in 0..(MaxUserId + 1)}

OrderSegs == {<<"x">>, <<"-","1">>} \cup {IntText(i) : i \in 0..(MaxOrderId + 1)}

Request(route, seg, page, limit, filter) ==
  [route |-> route, seg |-> seg, page |-> page, limit |-> limit, filter |-> filter]

NoReq == Request("", <<>>, NULL, NULL, NULL)

NoResp == Response(0, [kind |-> ""])

----------------------------------------------------------------------------
(* The state machine: one request at a time is received, handled and answered *)

Init ==
  /\ users \in UserTables
  /\ orders \in OrderTables
  /\ pc = "idle"
  /\ req = NoReq
  /\ resp = NoResp
  /\ events = <<>>
  /\ seen = <<>>

\* The handler's return value becomes the response
Handle(request, out) ==
  /\ pc' = "done"
  /\ req' = request
  /\ resp' = out.resp
  /\ events' = out.events
  /\ UNCHANGED <<users, orders, seen>>

Root ==
  /\ pc = "idle"
  /\ Handle(Request("root", <<>>, NULL, NULL, NULL), root)

ListCustomers ==
  /\ pc = "idle"
  /\ \E rawPage \in PageRaws, rawLimit \in LimitRaws, rawSearch \in SearchRaws,
        env \in Env(2) :
       Handle(Request("list_customers", <<>>, rawPage, rawLimit, rawSearch),
              list_customers(rawPage, rawLimit, rawSearch, env))

\* /api/customers/<seg>: a segment the converter refuses matches no route and
\* is answered by the application's 404 handler.
GetCustomerDetails ==
  /\ pc = "idle"
  /\ \E seg \in CustomerSegs, env \in Env(2) :
       Handle(Request("get_customer_details", seg, NULL, NULL, NULL),
              IF IsNull(IntConverter(seg)) THEN Out(not_found, <<>>)
              ELSE get_customer_details(Val(IntConverter(seg)), env))

GetCustomerOrders ==
  /\ pc = "idle"
  /\ \E seg \in CustomerSegs, rawPage \in PageRaws, rawLimit \in LimitRaws,
        rawStatus \in StatusRaws, env \in Env(3) :
       Handle(Request("get_customer_orders", seg, rawPage, rawLimit, rawStatus),
              IF IsNull(IntConverter(seg)) THEN Out(not_found, <<>>)
              ELSE get_customer_orders(Val(IntConverter(seg)), rawPage, rawLimit,
                                       rawStatus, env))

GetOrderDetails ==
  /\ pc = "idle"
  /\ \E seg \in OrderSegs, env \in Env(1) :
       Handle(Request("get_order_details", seg, NULL, NULL, NULL),
              IF IsNull(IntConverter(seg)) THEN Out(not_found, <<>>)
              ELSE get_order_details(Val(IntConverter(seg)), env))

HealthCheck ==
  /\ pc = "idle"
  /\ \E connectOk \in BOOLEAN, closeOk \in BOOLEAN :
       Handle(Request("health_check", <<>>, NULL, NULL, NULL),
              health_check(connectOk, closeOk))

\* The response is sent; nothing of the request outlives it
Respond ==
  /\ pc = "done"
  /\ pc' = "idle"
  /\ req' = NoReq
  /\ resp' = NoResp
  /\ events' = <<>>
  /\ UNCHANGED <<users, orders, seen>>

Next ==
  \/ Root
  \/ ListCustomers
  \/ GetCustomerDetails
  \/ GetCustomerOrders
  \/ GetOrderDetails
  \/ HealthCheck
  \/ Respond

Spec == Init /\ [][Next]_vars

----------------------------------------------------------------------------
(* A client that reads the customer list page by page, with one limit and  *)
(* one search term, against a store that answers.                          *)

\* The limits the service accepts
WalkLimits ==
  {l \in LimitRaws : ArgsGetInt(l, DEFAULT_PAGE_SIZE) \in 1..MAX_PAGE_SIZE}

\* GET /api/customers?page=1&limit=..&search=..
FirstPage ==
  /\ pc = "idle"
  /\ \E rawLimit \in WalkLimits, rawSearch \in SearchRaws :
       Handle(Request("list_customers", <<>>, Some(IntText(1)), rawLimit, rawSearch),
              list_customers(Some(IntText(1)), rawLimit, rawSearch, OkEnv))

\* The client keeps the ids of the page it received, if the page is one of
\* 1..total_pages
Collect ==
  /\ pc = "done"
  /\ pc' = "collected"
  /\ seen' = IF resp.body.pagination.page <= resp.body.pagination.total_pages
             THEN Append(seen, [i \in 1..Len(resp.body.customers) |->
                                  resp.body.customers[i].id])
             ELSE seen
  /\ UNCHANGED <<users, orders, req, resp, events>>

\* The same request for the following page, while has_next says there is one
NextPage ==
  /\ pc = "collected"
  /\ resp.body.pagination.has_next
  /\ LET page == Some(IntText(resp.body.pagination.page + 1)) IN
     Handle(Request("list_customers", <<>>, page, req.limit, req.filter),
            list_customers(page, req.limit, req.filter, OkEnv))

EndWalk ==
  /\ pc = "collected"
  /\ ~resp.body.pagination.has_next
  /\ pc' = "walked"
  /\ UNCHANGED <<users, orders, req, resp, events, seen>>

NextPages ==
  \/ FirstPage
  \/ Collect
  \/ NextPage
  \/ EndWalk

SpecPages == Init /\ [][NextPages]_vars

----------------------------------------------------------------------------
(* Vocabulary of the properties *)

Done == pc = "done"

ListRoutes == {"list_customers", "get_customer_orders"}

DataRoutes == {"list_customers", "get_customer_details", "get_customer_orders",
               "get_order_details"}

IdRoutes == {"get_customer_details", "get_customer_orders", "get_order_details"}

\* A 200 answer of one of the two list routes
ListAnswer == Done /\ resp.status = 200 /\ req.route \in ListRoutes

\* The items of a list answer
Items == IF resp.body.kind = "customers" THEN resp.body.customers ELSE resp.body.orders

\* The least n with n * d >= t
Ceil(t, d) == CHOOSE n \in 0..t : n * d >= t /\ (n = 0 \/ (n - 1) * d < t)

\* The statements the request executed, in order
Executed == SelectSeq(events, LAMBDA e : e.op = "execute")

\* The store failed the request: connect, cursor or execute raised
StoreFailed ==
  \E i \in 1..Len(events) :
    events[i].op \in {"connect", "cursor", "execute"} /\ ~events[i].ok

\* The id in the path, when the segment is the text of an integer
SegInt == PyInt(req.seg)

\* page and limit of the request pass the handler's validation
ValidPaging ==
  /\ ArgsGetInt(req.page, 1) >= 1
  /\ ArgsGetInt(req.limit, DEFAULT_PAGE_SIZE) \in 1..MAX_PAGE_SIZE

----------------------------------------------------------------------------
(* Pagination *)

\* C1: a 200 answer of list_customers or get_customer_orders for page p >= 1
\* and limit l in 1..MAX_PAGE_SIZE holds exactly min(l, total_count - (p-1)*l)
\* items, and none when (p-1)*l >= total_count.
C1_PageLength ==
  ListAnswer =>
    LET p == resp.body.pagination.page
        l == resp.body.pagination.limit
        t == resp.body.pagination.total_count
    IN /\ p >= 1 /\ l >= 1 /\ l <= MAX_PAGE_SIZE
       /\ Len(Items) = IF (p - 1) * l >= t THEN 0 ELSE Min2(l, t - (p - 1) * l)

\* A last page that is reached and only partly filled
C1_Witness ==
  /\ ListAnswer
  /\ resp.body.pagination.page = 2
  /\ resp.body.pagination.limit = 2
  /\ resp.body.pagination.total_count = 3
  /\ Len(Items) = 1

\* C2: in every 200 list answer total_pages = ceil(total_count / limit),
\* has_next = (page < total_pages) and has_prev = (page > 1), also with no
\* rows and on pages past the last one.
C2_PaginationBlock ==
  ListAnswer =>
    LET g == resp.body.pagination IN
    /\ g.total_pages = Ceil(g.total_count, g.limit)
    /\ g.has_next = (g.page < Ceil(g.total_count, g.limit))
    /\ g.has_prev = (g.page > 1)

\* A page past the last one of a result that is not a multiple of the limit
C2_Witness ==
  /\ ListAnswer
  /\ resp.body.pagination.total_count = 3
  /\ resp.body.pagination.limit = 2
  /\ resp.body.pagination.page = 3
  /\ ~resp.body.pagination.has_next
  /\ Len(Items) = 0

----------------------------------------------------------------------------
(* Path ids and query parameters *)

\* C3: on the customer detail, customer orders and order detail routes an id
\* segment that is the text of a non-positive integer (0, -1) is answered 400,
\* and a segment that is no integer is answered 404 by the routing layer.
C3_NonPositiveIdIs400 ==
  (Done /\ req.route \in IdRoutes) =>
    /\ (~IsNull(SegInt) /\ Val(SegInt) <= 0 => resp.status = 400)
    /\ (IsNull(SegInt) => resp.status = 404)

\* C4: a page parameter that is present and is not the text of an integer, or
\* is an integer below 1, is answered 400 by list_customers and
\* get_customer_orders (here: whenever the store does not fail the request).
C4_BadPageIs400 ==
  (/\ Done /\ req.route \in ListRoutes /\ ~StoreFailed
   /\ (req.route = "get_customer_orders" => ~IsNull(SegInt) /\ Val(SegInt) > 0)
   /\ ~IsNull(req.page)
   /\ (IsNull(PyInt(Val(req.page))) \/ Val(PyInt(Val(req.page))) < 1))
  => resp.status = 400

\* No row of the route's table has the id
MissingRow(id) ==
  IF req.route = "get_order_details"
  THEN \A o \in orders : o.order_id # id
  ELSE \A u \in users : u.id # id

\* C5: a positive id with no matching row is answered 404 by
\* get_customer_details, get_customer_orders and get_order_details when the
\* store answers; get_customer_orders checks the customer first, so for a
\* missing customer it executes the existence query alone and no statement on
\* orders, whatever the store does.
C5_MissingRowIs404 ==
  (/\ Done /\ req.route \in IdRoutes
   /\ ~IsNull(SegInt) /\ Val(SegInt) > 0 /\ MissingRow(Val(SegInt))
   /\ (req.route = "get_customer_orders" => ValidPaging))
  => /\ ~StoreFailed =>
          /\ resp.status = 404
          /\ resp.body.kind = "error"
          /\ resp.body.status = 404
          /\ Len(Executed) = 1
     /\ \A i \in 1..Len(Executed) :
          /\ i = 1
          /\ req.route = "get_customer_orders" =>
               Executed[i].stmt = CustomerExistsQuery(Val(SegInt))

\* A missing customer who has orders in the store
C5_Witness ==
  /\ Done /\ req.route = "get_customer_orders"
  /\ resp.status = 404
  /\ resp.body.error = "Customer Not Found"
  /\ Len(Executed) = 1
  /\ \E o \in orders : o.user_id = Val(SegInt)

----------------------------------------------------------------------------
(* Count and page statements *)

\* C6: in every 200 list answer the count statement and the page statement
\* have the same table, the same WHERE clause and the same bound parameters
\* (the page statement adds the ordering, LIMIT and OFFSET), total_count is
\* the number of rows satisfying that clause, and every item returned is one
\* of those rows.
C6_CountMatchesPage ==
  ListAnswer =>
    LET n == Len(Executed)
        c == Executed[n - 1].stmt
        p == Executed[n].stmt
        k == Len(p.params)
        rows == {r \in Table(p.table) : Where(r, p.where, SubSeq(p.params, 1, k - 2))}
    IN /\ c.kind = "count" /\ p.kind = "select"
       /\ c.table = p.table
       /\ c.where = p.where
       /\ c.params = SubSeq(p.params, 1, k - 2)
       /\ c.tail = "" /\ p.tail # ""
       /\ resp.body.pagination.total_count = Cardinality(rows)
       /\ \A i \in 1..Len(Items) :
            IF resp.body.kind = "customers"
            THEN \E r \in rows : r.id = Items[i].id
            ELSE \E r \in rows : r.order_id = Items[i].order_id

\* A search that selects some customers and not all
C6_Witness ==
  /\ ListAnswer
  /\ resp.body.kind = "customers"
  /\ ~IsNull(resp.body.search)
  /\ resp.body.pagination.total_count >= 1
  /\ resp.body.pagination.total_count < Cardinality(users)

----------------------------------------------------------------------------
(* Store failures *)

\* C7: when connect, cursor or execute fails in one of the four data
\* handlers the request is answered 500, the connection was asked for once,
\* nothing is asked of the store again after the failing step except
\* releasing it, and the process goes on to take requests: the response can
\* be sent, and once idle every route can be served.
C7_StoreFailureIs500 ==
  /\ (Done /\ req.route \in DataRoutes /\ StoreFailed) =>
       LET f == CHOOSE i \in 1..Len(events) :
                  events[i].op \in {"connect", "cursor", "execute"} /\ ~events[i].ok
       IN /\ resp.status = 500
          /\ Cardinality({i \in 1..Len(events) : events[i].op = "connect"}) = 1
          /\ \A j \in (f + 1)..Len(events) :
               events[j].op \in {"is_connected", "cursor_close", "close"}
          /\ ENABLED Respond
  /\ pc = "idle" =>
       /\ ENABLED ListCustomers /\ ENABLED GetCustomerDetails
       /\ ENABLED GetCustomerOrders /\ ENABLED GetOrderDetails
       /\ ENABLED HealthCheck /\ ENABLED Root

\* The page query of get_customer_orders raises after two good statements
C7_Witness ==
  /\ Done /\ req.route = "get_customer_orders"
  /\ Len(Executed) = 3
  /\ ~Executed[3].ok
  /\ resp.status = 500
  /\ resp.body.kind = "error"

\* The body carries the text t in one of its text fields
BodyCarries(t) ==
  CASE resp.body.kind = "error" -> resp.body.error = t \/ resp.body.message = t
    [] resp.body.kind = "health_error" -> resp.body.error = t
    [] OTHER -> FALSE

\* C8: no response body on any route, the health endpoint's error path
\* included, contains the text of the driver's exception.
C8_NoDriverTextInBody == Done => ~BodyCarries(DriverErrorText)

----------------------------------------------------------------------------
(* Health *)

HealthAnswer == Done /\ req.route = "health_check"

\* The probe raised: connection.close() failed
ProbeRaised == \E i \in 1..Len(events) : events[i].op = "close" /\ ~events[i].ok

\* C9 as stated: 200 and 'connected' when the store is reachable, the 500
\* unhealthy payload only when the probe raises, and a store that cannot be
\* reached without raising is answered 200 with the unhealthy state in the
\* body.
C9_Original ==
  HealthAnswer =>
    /\ (events = <<EvConnect(TRUE), EvClose(TRUE)>> =>
          resp.status = 200 /\ resp.body.database = "connected")
    /\ (resp.status = 500 => ProbeRaised /\ resp.body.status = "unhealthy")
    /\ (events = <<EvConnect(FALSE)>> =>
          resp.status = 200 /\ resp.body.status = "unhealthy")

\* C9 (amended): 200 and 'connected' when the store is reachable, the 500
\* unhealthy payload only when the probe raises, and a store that cannot be
\* reached without raising is answered 200 with database 'disconnected' while
\* the status field of the body still reads 'healthy'.
C9_HealthReport ==
  HealthAnswer =>
    /\ (events = <<EvConnect(TRUE), EvClose(TRUE)>> =>
          resp.status = 200 /\ resp.body.database = "connected")
    /\ (resp.status = 500 => ProbeRaised /\ resp.body.status = "unhealthy")
    /\ (events = <<EvConnect(FALSE)>> =>
          /\ resp.status = 200
          /\ resp.body.database = "disconnected"
          /\ resp.body.status = "healthy")

\* The health probe finds the store unreachable
C9_Witness ==
  /\ HealthAnswer
  /\ events = <<EvConnect(FALSE)>>
  /\ resp.status = 200

----------------------------------------------------------------------------
(* Order detail with a dangling customer reference *)

\* The order asked for is stored, its user is not, and the store answers
DanglingOrderAnswer ==
  /\ Done /\ req.route = "get_order_details" /\ ~StoreFailed
  /\ ~IsNull(SegInt)
  /\ \E o \in orders : o.order_id = Val(SegInt) /\ \A u \in users : u.id # o.user_id

\* The order fields of the body are those of the stored row
OrderPopulated ==
  LET o == CHOOSE o \in orders : o.order_id = Val(SegInt) IN
  /\ resp.body.order.order_id = o.order_id
  /\ resp.body.order.user_id = o.user_id
  /\ resp.body.order.status = o.status
  /\ resp.body.order.num_of_items = o.num_of_item
  /\ resp.body.order.created_at = Some(o.created_at)

\* The joined customer fields of the body are null
JoinedFieldsNull ==
  LET c == resp.body.customer IN
  /\ IsNull(c.first_name) /\ IsNull(c.last_name) /\ IsNull(c.full_name)
  /\ IsNull(c.email) /\ IsNull(c.age)
  /\ IsNull(c.location.city) /\ IsNull(c.location.state)
  /\ IsNull(c.location.country)

\* C10 as stated: an order whose user_id matches no customer is answered 200
\* with the order fields populated and every field of the customer object
\* null, id included.
C10_Original ==
  DanglingOrderAnswer =>
    /\ resp.status = 200
    /\ OrderPopulated
    /\ JoinedFieldsNull
    /\ IsNull(resp.body.customer.id)

\* C10 (amended): an order whose user_id matches no customer is answered 200,
\* never 404, with the order fields populated and first_name, last_name,
\* full_name, email, age and the location fields of the customer object
\* null; the customer's id is the order's user_id, not null.
C10_DanglingOrder ==
  DanglingOrderAnswer =>
    /\ resp.status = 200
    /\ OrderPopulated
    /\ JoinedFieldsNull
    /\ resp.body.customer.id = Some(resp.body.order.user_id)

\* An order of a customer that is not stored is answered
C10_Witness ==
  /\ DanglingOrderAnswer
  /\ resp.status = 200
  /\ resp.body.kind = "order"

----------------------------------------------------------------------------
(* Response envelopes *)

SuccessAnswer == Done /\ resp.status \in 200..299

\* The body has a status field whose value is the response's HTTP status.
\* The status field of the health bodies is a text, never a number.
StatusMirrors ==
  /\ "status" \in DOMAIN resp.body
  /\ resp.body.kind \notin {"health", "health_error"}
  /\ resp.body.status = resp.status

\* C11 as stated: every 2xx response of every route (root, list customers,
\* customer detail, customer orders, order detail, health) carries a status
\* field equal to the HTTP status code.
C11_Original == SuccessAnswer => StatusMirrors

\* C11 (amended): every 2xx response of the four data routes carries a status
\* field equal to the HTTP status code; the root response has no status field
\* and the status field of a 2xx health response is the text 'healthy'.
C11_DataStatusMirrors ==
  SuccessAnswer =>
    CASE req.route \in DataRoutes -> StatusMirrors
      [] req.route = "root" -> "status" \notin DOMAIN resp.body
      [] req.route = "health_check" -> resp.body.status = "healthy"

\* A customer detail served with its status field
C11_Witness ==
  /\ SuccessAnswer
  /\ req.route = "get_customer_details"
  /\ resp.body.kind = "customer"
  /\ resp.body.status = 200

ErrorAnswer == Done /\ resp.status \in {400, 404, 500}

\* C12: every 400, 404 and 500 response, on every route including unmatched
\* routes and the health endpoint, has a body of exactly the fields error,
\* message and status, with status equal to the HTTP status code (stated here
\* of the bodies the application builds itself, leaving aside the server's
\* own page for an exception that escapes a view function).
C12_ErrorShape ==
  (ErrorAnswer /\ resp.body.kind # "server_error_page") =>
    /\ resp.body.kind = "error"
    /\ DOMAIN resp.body = {"kind", "error", "message", "status"}
    /\ resp.body.status = resp.status

----------------------------------------------------------------------------
(* Order summary of a customer *)

CustomerAnswer == Done /\ resp.status = 200 /\ resp.body.kind = "customer"

\* The stored orders of the customer in the answer
OrdersOfAnswer == {o \in orders : o.user_id = resp.body.customer.id}

\* How many of them have the status, compared as the store compares text
WithStatus(text) == Cardinality({o \in OrdersOfAnswer : Lower(o.status) = text})

NamedStatuses == {T_delivered, T_returned, T_shipped, T_pending}

\* C13: in the order_summary of get_customer_details total_orders counts all
\* the customer's orders and each of delivered, returned, shipped, pending
\* counts the orders with that status, so an order in any other status is in
\* total_orders and in no bucket, and the buckets never sum to more than
\* total_orders.
C13_OrderSummary ==
  CustomerAnswer =>
    LET s == resp.body.order_summary
        b == s.orders_by_status
        sum == b.delivered + b.returned + b.shipped + b.pending
    IN /\ s.total_orders = Cardinality(OrdersOfAnswer)
       /\ b.delivered = WithStatus(T_delivered)
       /\ b.returned = WithStatus(T_returned)
       /\ b.shipped = WithStatus(T_shipped)
       /\ b.pending = WithStatus(T_pending)
       /\ sum <= s.total_orders
       /\ s.total_orders - sum =
            Cardinality({o \in OrdersOfAnswer : Lower(o.status) \notin NamedStatuses})

\* The summary of a customer with orders delivered: 2, shipped: 1, weird: 1
C13_Witness ==
  /\ CustomerAnswer
  /\ orders = SummaryExample
  /\ resp.body.order_summary.total_orders = 4
  /\ resp.body.order_summary.orders_by_status =
       [delivered |-> 2, returned |-> 0, shipped |-> 1, pending |-> 0]

----------------------------------------------------------------------------
(* Status filter of a customer's orders *)

OrdersAnswer == Done /\ resp.status = 200 /\ resp.body.kind = "customer_orders"

\* The request carries a status filter that is not blank
Filtered == ~IsNull(req.filter) /\ Strip(Val(req.filter)) # <<>>

\* The filter value as the claim reads it: trimmed and lower-cased
FilterText == Lower(Strip(Val(req.filter)))

\* The customer's stored orders whose lower-cased status is the filter
FilterMatches ==
  {o \in orders : o.user_id = Val(SegInt) /\ Lower(o.status) = FilterText}

\* C14: with a status filter get_customer_orders returns only orders of that
\* customer whose lower-cased status equals the trimmed, lower-cased filter;
\* total_count counts exactly those; a filter no order matches gives 200 with
\* no orders and total_count 0; and whatever the filter, a request for a
\* stored customer with valid page and limit is answered 200 when the store
\* answers, never 400.
C14_StatusFilter ==
  /\ (OrdersAnswer /\ Filtered) =>
       /\ \A i \in 1..Len(Items) :
            /\ Items[i].user_id = Val(SegInt)
            /\ Lower(Items[i].status) = FilterText
            /\ \E o \in FilterMatches : o.order_id = Items[i].order_id
       /\ resp.body.pagination.total_count = Cardinality(FilterMatches)
       /\ resp.body.filter = Some(FilterText)
       /\ (FilterMatches = {} =>
             Len(Items) = 0 /\ resp.body.pagination.total_count = 0)
  /\ (/\ Done /\ req.route = "get_customer_orders" /\ ~StoreFailed /\ ValidPaging
      /\ ~IsNull(SegInt) /\ \E u \in users : u.id = Val(SegInt))
     => resp.status = 200

\* A filter in another case and with blanks selects one of several orders
C14_Witness ==
  /\ OrdersAnswer
  /\ req.filter = Some(<<" ","S","h","i","p","p","e","d"," ">>)
  /\ Len(Items) = 1
  /\ Items[1].status = <<"S","h","i","p","p","e","d">>
  /\ Cardinality({o \in orders : o.user_id = Val(SegInt)}) >= 3

----------------------------------------------------------------------------
(* Derived names and coordinates *)

\* A 200 answer that carries a derived name
NamedAnswer ==
  /\ Done /\ resp.status = 200
  /\ resp.body.kind \in {"customer", "customer_orders", "order"}

\* The id of the customer the answer describes
NamedCustomerId ==
  IF resp.body.kind = "order" THEN resp.body.order.user_id ELSE Val(SegInt)

\* The stored first and last name of that customer (NULL when not stored)
StoredFirst ==
  IF \E u \in users : u.id = NamedCustomerId
  THEN (CHOOSE u \in users : u.id = NamedCustomerId).first_name ELSE NULL

StoredLast ==
  IF \E u \in users : u.id = NamedCustomerId
  THEN (CHOOSE u \in users : u.id = NamedCustomerId).last_name ELSE NULL

\* The derived name of the answer, as a nullable text
DerivedName ==
  IF resp.body.kind = "customer_orders" THEN Some(resp.body.customer.name)
  ELSE resp.body.customer.full_name

\* C15: wherever a response carries a derived full_name (customer detail, the
\* customer of order detail, the name of the customer stub of customer
\* orders) it is first + ' ' + last, and null when both names are missing.
C15_FullName ==
  NamedAnswer =>
    /\ (~IsNull(StoredFirst) /\ ~IsNull(StoredLast) =>
          DerivedName = Some(Val(StoredFirst) \o <<" ">> \o Val(StoredLast)))
    /\ (IsNull(StoredFirst) /\ IsNull(StoredLast) => IsNull(DerivedName))

\* C16: in get_customer_details latitude and longitude are rendered as the
\* stored numbers whenever the stored value is present, 0 included, and as
\* null only when the stored value is absent.
C16_Coordinates ==
  CustomerAnswer =>
    LET u == CHOOSE u \in users : u.id = resp.body.customer.id
        c == resp.body.customer.location.coordinates
    IN c.latitude = u.latitude /\ c.longitude = u.longitude

----------------------------------------------------------------------------
(* Connection lifecycle and order of store access *)

\* The request opened a connection
Opened == \E i \in 1..Len(events) : events[i].op = "connect" /\ events[i].ok

\* The request closed its connection
Closed == \E i \in 1..Len(events) : events[i].op = "close" /\ events[i].ok

\* The connection was still connected when the finally block asked
StillConnected ==
  \E i \in 1..Len(events) : events[i].op = "is_connected" /\ events[i].ok

\* C17: in every data handler a connection that was opened is closed before
\* the handler finishes, on every exit path: success, 404, a query exception
\* and a failure to create the cursor (stated here for the paths on which the
\* connection is still connected when the finally block runs).
C17_ConnectionClosed ==
  (Done /\ req.route \in DataRoutes /\ Opened /\ StillConnected) => Closed

\* The request reaches a handler (its id segment, if any, is routed)
Routed == req.route \in IdRoutes => ~IsNull(IntConverter(req.seg))

\* The handler has a reason to reject the request: a non-positive id, a page
\* below 1 or a limit outside 1..MAX_PAGE_SIZE
Rejectable ==
  /\ Routed
  /\ \/ req.route \in IdRoutes /\ Val(IntConverter(req.seg)) <= 0
     \/ req.route \in ListRoutes /\ ~ValidPaging

\* C18: a data handler that rejects a request for a non-positive id, a page
\* below 1 or a limit outside 1..MAX_PAGE_SIZE answers 400 having asked
\* nothing of the store: no connection was opened and no statement executed
\* before the validation return; and no 400 is ever preceded by a store step.
C18_ValidationBeforeStore ==
  (Done /\ req.route \in DataRoutes) =>
    /\ Rejectable => resp.status = 400 /\ events = <<>>
    /\ resp.status = 400 => Rejectable /\ events = <<>>

\* A limit above the maximum is refused for a routed customer id
C18_Witness ==
  /\ Done /\ req.route = "get_customer_orders"
  /\ resp.status = 400
  /\ resp.body.error = "Invalid limit"
  /\ ArgsGetInt(req.limit, DEFAULT_PAGE_SIZE) > MAX_PAGE_SIZE
  /\ events = <<>>

----------------------------------------------------------------------------
(* Walking the pages of the customer list *)

\* text contains term, compared without regard to case
Contains(text, term) ==
  \E i \in 1..(Len(text) - Len(term) + 1) :
    Lower(SubSeq(text, i, i + Len(term) - 1)) = Lower(term)

\* The search term of the walk, trimmed
WalkTerm == Strip(ArgsGetStr(req.filter))

\* The ids of the stored customers the search selects: all of them without a
\* term, else those whose first name, last name or email contains it
MatchingIds ==
  { u.id : u \in { u \in users :
      \/ WalkTerm = <<>>
      \/ ~IsNull(u.first_name) /\ Contains(Val(u.first_name), WalkTerm)
      \/ ~IsNull(u.last_name) /\ Contains(Val(u.last_name), WalkTerm)
      \/ ~IsNull(u.email) /\ Contains(Val(u.email), WalkTerm) } }

RECURSIVE Concat(_)
Concat(pages) == IF pages = <<>> THEN <<>> ELSE Head(pages) \o Concat(Tail(pages))

Ascending(s) == \A i, j \in 1..Len(s) : i < j => s[i] < s[j]

\* C19: for a fixed store, limit and search term the pages 1..total_pages of
\* list_customers are pairwise disjoint, each in ascending id order, and their
\* concatenation is the matching customers in ascending id order, each on
\* exactly one page.
C19_PagesPartition ==
  pc = "walked" =>
    /\ Len(seen) = resp.body.pagination.total_pages
    /\ \A p \in 1..Len(seen) : Ascending(seen[p])
    /\ \A p, q \in 1..Len(seen) :
         p # q => \A i \in 1..Len(seen[p]), j \in 1..Len(seen[q]) :
                    seen[p][i] # seen[q][j]
    /\ Ascending(Concat(seen))
    /\ {Concat(seen)[i] : i \in 1..Len(Concat(seen))} = MatchingIds
    /\ Len(Concat(seen)) = Cardinality(MatchingIds)

\* Three customers read in two pages of two
C19_Witness ==
  /\ pc = "walked"
  /\ Len(seen) = 2
  /\ Len(seen[1]) = 2
  /\ Len(seen[2]) = 1

====
